---------------------------- MODULE Spec2Model ----------------------------
(***************************************************************************)
(* The Vouchers page of voucher-wallet (src/src/pages/Signup.tsx, lines    *)
(* 197-991: the `Vouchers` component) together with the remote voucher     *)
(* table it reads and writes.                                              *)
(*                                                                         *)
(* Text is a sequence of one-character strings, so that trim(), the        *)
(* regular expressions and Number() are computed character by character.   *)
(* A JavaScript number is an exact decimal: the integer n stands for       *)
(* n / Scale.  Binary rounding of doubles is not modelled.                 *)
(***************************************************************************)
EXTENDS Integers, Sequences, FiniteSets, TLC

\* ------------------------------------------------------------------ bounds
\* Decimal places a number keeps.
FracLen == 1
\* Rows the voucher table ever receives (ids are never reused).
MaxVouchers == 2
\* Rows of an imported sheet.
MaxRows == 2
\* Last instant of the clock, in half days.
MaxNow == 4

\* ------------------------------------------------------------------- text
Digits == <<"0", "1", "2", "3", "4", "5", "6", "7", "8", "9">>

IsDigit(c) == \E i \in 1..Len(Digits) : Digits[i] = c

DigitVal(c) == (CHOOSE i \in 1..Len(Digits) : Digits[i] = c) - 1

RECURSIVE Pow10(_)
Pow10(k) == IF k = 0 THEN 1 ELSE 10 * Pow10(k - 1)

\* The integer n stands for the number n / Scale.
Scale == Pow10(FracLen)

RECURSIVE TrimStart(_)
TrimStart(t) == IF t # <<>> /\ Head(t) = " " THEN TrimStart(Tail(t)) ELSE t

RECURSIVE TrimEnd(_)
TrimEnd(t) ==
    IF t # <<>> /\ t[Len(t)] = " " THEN TrimEnd(SubSeq(t, 1, Len(t) - 1)) ELSE t

\* String.prototype.trim
Trim(t) == TrimEnd(TrimStart(t))

\* s.replace(/[^\d.]/g, "")
KeepNumChars(t) == SelectSeq(t, LAMBDA c : IsDigit(c) \/ c = ".")

\* s.replace(/^0+(?=\d)/, ""): the longest run of leading zeros that is still
\* followed by a digit is removed.
RECURSIVE StripZeros(_)
StripZeros(t) ==
    IF Len(t) >= 2 /\ t[1] = "0" /\ IsDigit(t[2]) THEN StripZeros(Tail(t)) ELSE t

cleanNumString(t) == IF t = <<>> THEN <<>> ELSE StripZeros(KeepNumChars(t))

\* ---------------------------------------------------------------- numbers
NaN == [fin |-> FALSE, n |-> 0]

Num(n) == [fin |-> TRUE, n |-> n]

RECURSIVE DigitsVal(_)
DigitsVal(t) ==
    IF t = <<>> THEN 0 ELSE 10 * DigitsVal(SubSeq(t, 1, Len(t) - 1)) + DigitVal(t[Len(t)])

AllDigits(t) == \A i \in 1..Len(t) : IsDigit(t[i])

DotAt(t) == IF \E i \in 1..Len(t) : t[i] = "."
            THEN CHOOSE i \in 1..Len(t) : t[i] = "." /\ \A j \in 1..(i - 1) : t[j] # "."
            ELSE 0

\* Number(s) of an unsigned decimal literal: digits, at most one dot, at
\* least one digit.
UnsignedNumber(t) ==
    LET d    == DotAt(t)
        ip   == IF d = 0 THEN t ELSE SubSeq(t, 1, d - 1)
        fp   == IF d = 0 THEN <<>> ELSE SubSeq(t, d + 1, Len(t))
    IN  IF AllDigits(ip) /\ AllDigits(fp) /\ Len(ip) + Len(fp) > 0 /\ Len(fp) <= FracLen
        THEN Num(DigitsVal(ip) * Scale + DigitsVal(fp) * Pow10(FracLen - Len(fp)))
        ELSE NaN

\* Number(s): white space is trimmed, the empty string is 0, one sign is
\* allowed, anything else that is not a decimal literal is NaN.
Number(t) ==
    LET s == Trim(t)
    IN  IF s = <<>> THEN Num(0)
        ELSE IF Head(s) = "-"
             THEN LET u == UnsignedNumber(Tail(s))
                  IN  IF u.fin THEN Num(0 - u.n) ELSE NaN
             ELSE UnsignedNumber(s)

\* Number.isFinite
IsFinite(x) == x.fin

RECURSIVE NatText(_)
NatText(n) == IF n < 10 THEN <<Digits[n + 1]>> ELSE NatText(n \div 10) \o <<Digits[(n % 10) + 1]>>

RECURSIVE FracText(_, _)
FracText(f, k) ==
    IF f = 0 THEN <<>> ELSE <<Digits[(f \div Pow10(k - 1)) + 1]>> \o FracText(f % Pow10(k - 1), k - 1)

\* String(n) of a non-negative number
NumText(n) ==
    NatText(n \div Scale) \o (IF n % Scale = 0 THEN <<>> ELSE <<".">> \o FracText(n % Scale, FracLen))

\* ---------------------------------------------------------------- domains
Users == {"u1", "u2"}

\* supabase.auth.getUser() returning { user: null }
NoUser == "none"

\* expires_on: 0 is the empty string / null, d > 0 the ISO date of day d.
NoDate == 0

\* Last calendar day a date field holds.
MaxDay == 2

\* Requests on their way to the store at one time, where the page lets
\* requests overlap.
MaxPending == 2

Dates == 1..MaxDay

\* One calendar day, in clock instants (half days).
DayLen == 2

\* Offsets of local time from UTC, in clock instants.
TZOffsets == {0 - 1, 0, 1}

categories == {"General", "Food"}

\* Texts typed into a numeric field, before cleanNumString.
NumKeyed ==
    {<<>>, <<".">>, <<"0">>, <<"-", ".", "5">>, <<"0", "1", ".", "5">>,
     <<"1", ".", ".">>}

\* What a numeric input can hold: every onChange stores cleanNumString(raw).
NumTexts == {cleanNumString(r) : r \in NumKeyed}

NameTexts == {<<>>, <<" ">>, <<" ", "A">>}

\* null in a nullable text column
Null == <<"null">>

\* x.trim() || null
TrimOrNull(t) == IF Trim(t) = <<>> THEN Null ELSE Trim(t)

\* The "no voucher" value of useItem / editItem (null).
NoItem == [id |-> 0]

\* -------------------------------------------------------------------- state
VARIABLES
    store,      \* the vouchers table: rows in insertion order
    user,       \* whom supabase.auth.getUser() returns now
    now,        \* Date.now(), in clock instants
    tz,         \* the browser's offset from UTC
    list,       \* useState<Voucher[]>: the in-memory list
    filtered,   \* useMemo: the rows of the page, as last computed
    loading,    \* useState(true)
    useItem,    \* voucher of the open Partial Usage modal, or NoItem
    editItem,   \* voucher of the open Edit modal, or NoItem
    net,        \* requests in flight: store writes and fetches
    shown,      \* derived status of every rendered row, as last rendered
    filterCategory, \* useState<Category>("All")
    search,     \* useState(""): the text of the search box
    sort,       \* useState<SortKey>("created_desc")
    dash,       \* the Dashboard: its vouchers, loading, totals and effect
    last        \* the last handler that ran: its inputs, payload and outcome

vars ==
    <<store, user, now, tz, list, filtered, loading, useItem, editItem, net, shown,
      last, filterCategory, search, sort, dash>>

ui == <<filterCategory, search, sort>>

page == <<list, filtered, loading, useItem, editItem, shown>>

env == <<user, now, tz>>

\* ------------------------------------------------------------- the table
Row(id) == store[id]

Deleted(r) == r.user_id = NoUser /\ r.name = <<>>

\* A deleted row keeps its place (ids are never reused) and is not listed.
Tombstone(id) ==
    [id |-> id, user_id |-> NoUser, name |-> <<>>, value |-> 0, spent |-> 0,
     category |-> "", code |-> Null, pin |-> Null, expires_on |-> NoDate,
     status |-> "", created_at |-> 0]

Live == {i \in 1..Len(store) : ~Deleted(store[i])}

\* insert(rows): the table assigns id and created_at; the rows of one
\* statement share their created_at.
RECURSIVE Stamp(_, _, _)
Stamp(rows, id, at) ==
    IF rows = <<>> THEN <<>>
    ELSE <<[id |-> id, created_at |-> at] @@ Head(rows)>> \o Stamp(Tail(rows), id + 1, at)

InsertRows(tbl, rows) == tbl \o Stamp(rows, Len(tbl) + 1, Len(tbl) + 1)

\* update(payload).eq("id", id): the payload's columns replace the row's.
ApplyUpdate(r, p) == [f \in DOMAIN r |-> IF f \in DOMAIN p THEN p[f] ELSE r[f]]

UpdateRow(tbl, id, p) ==
    IF id \in 1..Len(tbl) /\ ~Deleted(tbl[id])
    THEN [tbl EXCEPT ![id] = ApplyUpdate(tbl[id], p)]
    ELSE tbl

\* delete().eq("id", id)
DeleteRow(tbl, id) ==
    IF id \in 1..Len(tbl) THEN [tbl EXCEPT ![id] = Tombstone(id)] ELSE tbl

\* A select without .eq("user_id", u): the rows of every user.
SelectionsOfAll(tbl, u) ==
    LET ids == {i \in 1..Len(tbl) : ~Deleted(tbl[i])}
        n   == Cardinality(ids)
    IN  {[k \in 1..n |-> tbl[f[k]]] :
            f \in {g \in [1..n -> ids] :
                     /\ \A a, b \in 1..n : a # b => g[a] # g[b]
                     /\ \A a, b \in 1..n :
                          a < b => tbl[g[a]].created_at >= tbl[g[b]].created_at}}

\* select("*").eq("user_id", u).order("created_at", { ascending: false }):
\* every ordering of u's rows with created_at descending.
Selections(tbl, u) ==
    LET ids == {i \in 1..Len(tbl) : ~Deleted(tbl[i]) /\ tbl[i].user_id = u}
        n   == Cardinality(ids)
    IN  {[k \in 1..n |-> tbl[f[k]]] :
            f \in {g \in [1..n -> ids] :
                     /\ \A a, b \in 1..n : a # b => g[a] # g[b]
                     /\ \A a, b \in 1..n :
                          a < b => tbl[g[a]].created_at >= tbl[g[b]].created_at}}

\* ------------------------------------------------------ status derivation
\* new Date(v.expires_on).getTime(): a date-only ISO string is UTC midnight.
DateMs(d) == d * DayLen

\* end.setHours(23, 59, 59, 999): the last instant of the LOCAL calendar day
\* in which the instant t falls, as a UTC instant.
EndOfLocalDay(t, off) == (((t + off) \div DayLen) * DayLen + (DayLen - 1)) - off

deriveStatus(v, t, off) ==
    IF v.expires_on # NoDate /\ EndOfLocalDay(DateMs(v.expires_on), off) < t
    THEN "expired"
    ELSE IF v.status # "" THEN v.status ELSE "unused"

\* --------------------------------------------------------------- requests
FetchReq == [kind |-> "fetch", phase |-> "sent"]

Without(q, i) == SubSeq(q, 1, i - 1) \o SubSeq(q, i + 1, Len(q))

Idle == net = <<>>

NoModal == useItem = NoItem /\ editItem = NoItem

\* The rows are rendered only when loading is false (line 755), and a modal
\* covers the whole page (fixed inset-0).
RowsClickable == NoModal /\ ~loading

\* The record of a handler run: the write it sent, or why it sent none.
Ran(op, stage, alert, extra) ==
    [op |-> op, stage |-> stage, alert |-> alert] @@ extra

\* ------------------------------------------------------------- dashboard
\* Dashboard.deriveStatus, part_000 lines 12-19: the stored status as it
\* is, "" when the row has none.
DashboardDeriveStatus(v, t, off) ==
    IF v.expires_on # NoDate /\ EndOfLocalDay(DateMs(v.expires_on), off) < t
    THEN "expired"
    ELSE v.status

\* totals, part_000 lines 48-50
Totals(vs, t, off) ==
    LET count(st) ==
            Cardinality({k \in 1..Len(vs) : DashboardDeriveStatus(vs[k], t, off) = st})
    IN  [unused |-> count("unused"), used |-> count("used"), expired |-> count("expired")]

\* The Dashboard's state, part_000 lines 8-9 and 43: pc is the place of its
\* effect (lines 24-37): "off" while the route is not mounted, "getUser"
\* and "select" while the effect awaits the call, "done" after it returned.
DashState(pc, uid, vs, ld, tot) ==
    [pc |-> pc, uid |-> uid, vouchers |-> vs, loading |-> ld, totals |-> tot]

DashOff == DashState("off", NoUser, <<>>, TRUE, Totals(<<>>, 0, 0))

\* The Vouchers route has just mounted for a signed-in user of U, in a
\* browser whose time zone is one of Z; the table is empty.
Start(U, Z) ==
    /\ store = <<>>
    /\ user \in U
    /\ now = 0
    /\ tz \in Z
    /\ list = <<>>
    /\ filtered = <<>>
    /\ loading = TRUE
    /\ useItem = NoItem
    /\ editItem = NoItem
    /\ net = <<FetchReq>>
    /\ shown = <<>>
    /\ last = [op |-> "none", stage |-> "none", alert |-> ""]
    /\ filterCategory = "All"
    /\ search = <<>>
    /\ sort = "created_desc"
    /\ dash = DashOff

\* ------------------------------------------------------------ projection
Min(a, b) == IF a <= b THEN a ELSE b

Max(a, b) == IF a >= b THEN a ELSE b

UpperCase ==
    <<"A", "B", "C", "D", "E", "F", "G", "H", "I", "J", "K", "L", "M",
      "N", "O", "P", "Q", "R", "S", "T", "U", "V", "W", "X", "Y", "Z">>

LowerCase ==
    <<"a", "b", "c", "d", "e", "f", "g", "h", "i", "j", "k", "l", "m",
      "n", "o", "p", "q", "r", "s", "t", "u", "v", "w", "x", "y", "z">>

\* String.prototype.toLowerCase
toLowerCase(t) ==
    [i \in 1..Len(t) |->
        IF \E j \in 1..Len(UpperCase) : UpperCase[j] = t[i]
        THEN LowerCase[CHOOSE j \in 1..Len(UpperCase) : UpperCase[j] = t[i]]
        ELSE t[i]]

\* String.prototype.includes
includes(t, part) ==
    \E i \in 0..(Len(t) - Len(part)) : SubSeq(t, i + 1, i + Len(part)) = part

\* The characters of a category.
CategoryText(c) ==
    CASE c = "General" -> <<"G", "e", "n", "e", "r", "a", "l">>
      [] c = "Food"    -> <<"F", "o", "o", "d">>

SortKeys ==
    {"created_desc", "value_desc", "value_asc", "expiry_asc", "remaining_desc",
     "status_used_first", "status_unused_first"}

\* list.filter(...), lines 304-312
Filter(l, cat, srch) ==
    LET term == toLowerCase(Trim(srch))
        inCategory(v) == IF cat = "All" THEN TRUE ELSE v.category = cat
        inSearch(v) ==
            \/ term = <<>>
            \/ includes(toLowerCase(v.name), term)
            \/ (v.code # Null /\ includes(toLowerCase(v.code), term))
            \/ includes(toLowerCase(CategoryText(v.category)), term)
    IN  SelectSeq(l, LAMBDA v : inCategory(v) /\ inSearch(v))

\* remaining, line 314
remainingOf(v) == Max(0, v.value - v.spent)

\* expMs, lines 315-316: a time, or positive infinity
expMs(v) ==
    IF v.expires_on # NoDate THEN [inf |-> FALSE, n |-> DateMs(v.expires_on)]
    ELSE [inf |-> TRUE, n |-> 0]

Sign(x) == IF x < 0 THEN 0 - 1 ELSE IF x > 0 THEN 1 ELSE 0

\* rank, lines 336 and 345
Rank(key, status) ==
    IF key = "status_used_first"
    THEN (CASE status = "used" -> 0 [] status = "unused" -> 1 [] status = "expired" -> 2)
    ELSE (CASE status = "unused" -> 0 [] status = "used" -> 1 [] status = "expired" -> 2)

\* The sign of the comparator of each sort key, lines 318-349.  Infinity
\* minus Infinity is NaN, which sort takes as 0.
Compare(key, a, b, t, off) ==
    CASE key = "value_desc" -> Sign(b.value - a.value)
      [] key = "value_asc"  -> Sign(a.value - b.value)
      [] key = "expiry_asc" ->
            IF expMs(a).inf /\ expMs(b).inf THEN 0
            ELSE IF expMs(a).inf THEN 1
            ELSE IF expMs(b).inf THEN 0 - 1
            ELSE Sign(expMs(a).n - expMs(b).n)
      [] key = "remaining_desc" -> Sign(remainingOf(b) - remainingOf(a))
      [] key \in {"status_used_first", "status_unused_first"} ->
            Sign(Rank(key, deriveStatus(a, t, off)) - Rank(key, deriveStatus(b, t, off)))

\* Array.prototype.sort is stable: an element goes behind the last one that
\* does not compare greater than it.
InsertSorted(sorted, x, key, t, off) ==
    LET notAfter == {i \in 1..Len(sorted) : Compare(key, sorted[i], x, t, off) <= 0}
        pos      == IF notAfter = {} THEN 0
                    ELSE CHOOSE i \in notAfter : \A j \in notAfter : j <= i
    IN  SubSeq(sorted, 1, pos) \o <<x>> \o SubSeq(sorted, pos + 1, Len(sorted))

RECURSIVE StableSort(_, _, _, _)
StableSort(a, key, t, off) ==
    IF a = <<>> THEN <<>>
    ELSE InsertSorted(StableSort(SubSeq(a, 1, Len(a) - 1), key, t, off),
                      a[Len(a)], key, t, off)

\* A projection that sorts the list itself before it filters.
ProjectionInPlace(l, cat, srch, key, t, off) ==
    LET sorted == IF key = "created_desc" THEN l ELSE StableSort(l, key, t, off)
    IN  [list |-> sorted, filtered |-> Filter(sorted, cat, srch)]

\* A projection whose search looks at the name only.
ProjectionNameOnly(l, cat, srch, key, t, off) ==
    LET term == toLowerCase(Trim(srch))
        arr  == SelectSeq(l, LAMBDA v :
                    /\ (cat = "All" \/ v.category = cat)
                    /\ (term = <<>> \/ includes(toLowerCase(v.name), term)))
    IN  [list |-> l,
         filtered |-> IF key = "created_desc" THEN arr ELSE StableSort(arr, key, t, off)]

\* A projection whose status_used_first is the order of status_unused_first.
ProjectionOneRank(l, cat, srch, key, t, off) ==
    LET arr == Filter(l, cat, srch)
        k2  == IF key = "status_used_first" THEN "status_unused_first" ELSE key
    IN  [list |-> l,
         filtered |-> IF key = "created_desc" THEN arr ELSE StableSort(arr, k2, t, off)]

\* The memo of lines 301-355: the value of `filtered`, and the array `list`
\* as the computation leaves it ([...arr].sort sorts a copy).
Projection(l, cat, srch, key, t, off) ==
    LET arr == Filter(l, cat, srch)
    IN  [list |-> l,
         filtered |-> IF key = "created_desc" THEN arr ELSE StableSort(arr, key, t, off)]

\* setList or a selector's setter with a new value re-renders the component,
\* and the memo, one of whose dependencies changed (line 355), is computed
\* again.
Recompute(l, cat, srch, key) ==
    LET p == Projection(l, cat, srch, key, now, tz)
    IN  list' = p.list /\ filtered' = p.filtered

\* ------------------------------------------------------------------ fetch
Sent(i) == i \in 1..Len(net) /\ net[i].kind = "fetch" /\ net[i].phase = "sent"

\* fetchAll, lines 277-290: getUser names a user and the select answers
\* with that user's rows.
FetchData(i) ==
    /\ Sent(i)
    /\ user # NoUser
    /\ \E data \in Selections(store, user) :
          net' = [net EXCEPT ![i] = [kind |-> "fetch", phase |-> "data", data |-> data]]
    /\ UNCHANGED <<dash, ui, store, env, page, last>>

\* fetchAll, lines 286-292: the select fails.
FetchError(i) ==
    /\ Sent(i)
    /\ user # NoUser
    /\ net' = [net EXCEPT ![i] = [kind |-> "fetch", phase |-> "error"]]
    /\ UNCHANGED <<dash, ui, store, env, page, last>>

\* fetchAll, lines 277-280: getUser names no user.
FetchNoUser(i) ==
    /\ Sent(i)
    /\ user = NoUser
    /\ net' = [net EXCEPT ![i] = [kind |-> "fetch", phase |-> "nouser"]]
    /\ UNCHANGED <<dash, ui, store, env, page, last>>

\* A fetchAll that empties the list when the select fails.
FetchDeliverClearOnError(i) ==
    /\ i \in 1..Len(net)
    /\ net[i].kind = "fetch" /\ net[i].phase # "sent"
    /\ IF net[i].phase = "data"
       THEN Recompute(net[i].data, filterCategory, search, sort)
       ELSE Recompute(<<>>, filterCategory, search, sort)
    /\ loading' = FALSE
    /\ net' = Without(net, i)
    /\ UNCHANGED <<dash, ui, store, env, useItem, editItem, shown, last>>

\* fetchAll, lines 280-293: the answers reach the component.
FetchDeliver(i) ==
    /\ i \in 1..Len(net)
    /\ net[i].kind = "fetch" /\ net[i].phase # "sent"
    /\ IF net[i].phase = "nouser"
       THEN Recompute(<<>>, filterCategory, search, sort)
       ELSE IF net[i].phase = "data"
       THEN Recompute(net[i].data, filterCategory, search, sort)
       ELSE UNCHANGED <<list, filtered>>
    /\ loading' = FALSE
    /\ net' = Without(net, i)
    /\ UNCHANGED <<dash, ui, store, env, useItem, editItem, shown, last>>

\* ------------------------------------------------------------- selectors
\* onClick, line 741
setFilterCategory(cat) ==
    /\ cat # filterCategory
    /\ filterCategory' = cat
    /\ Recompute(list, cat, search, sort)
    /\ UNCHANGED <<dash, store, env, loading, useItem, editItem, shown, net, last,
                   search, sort>>

\* onChange, line 619
setSearch(text) ==
    /\ text # search
    /\ search' = text
    /\ Recompute(list, filterCategory, text, sort)
    /\ UNCHANGED <<dash, store, env, loading, useItem, editItem, shown, net, last,
                   filterCategory, sort>>

\* onChange, line 625
setSort(key) ==
    /\ key # sort
    /\ sort' = key
    /\ Recompute(list, filterCategory, search, key)
    /\ UNCHANGED <<dash, store, env, loading, useItem, editItem, shown, net, last,
                   filterCategory, search>>

\* ---------------------------------------------------------------- render
\* Lines 755-766: a render with unchanged memo dependencies (the clock is
\* none of them, line 355) derives the status of each row of `filtered` anew.
Render ==
    /\ ~loading
    /\ shown' = [k \in 1..Len(filtered) |-> deriveStatus(filtered[k], now, tz)]
    /\ shown' # shown
    /\ UNCHANGED <<dash, ui, store, env, list, filtered, loading, useItem, editItem, net, last>>

\* ------------------------------------------------------------ environment
Tick ==
    /\ now < MaxNow
    /\ now' = now + 1
    /\ UNCHANGED <<dash, ui, store, user, tz, page, net, last>>

\* The session ends (sign-out elsewhere, token revoked): getUser gives null.
SessionEnd ==
    /\ user # NoUser
    /\ user' = NoUser
    /\ UNCHANGED <<dash, ui, store, now, tz, page, net, last>>

\* Sign-in through /login; the route mounts a fresh Vouchers component,
\* whose effect calls fetchAll (lines 243-298).
SignIn(u) ==
    /\ user = NoUser /\ Idle
    /\ user' = u
    /\ list' = <<>> /\ filtered' = <<>> /\ loading' = TRUE
    /\ useItem' = NoItem /\ editItem' = NoItem /\ shown' = <<>>
    /\ net' = <<FetchReq>>
    /\ filterCategory' = "All" /\ search' = <<>> /\ sort' = "created_desc"
    /\ UNCHANGED <<dash, store, now, tz, last>>

\* ------------------------------------------------------------------ routes
\* The Vouchers page without a component: no state, no request of its own.
VouchersOff ==
    /\ list = <<>> /\ filtered = <<>> /\ loading = TRUE
    /\ useItem = NoItem /\ editItem = NoItem /\ shown = <<>>
    /\ net = <<>>
    /\ filterCategory = "All" /\ search = <<>> /\ sort = "created_desc"

\* The link to /dashboard (TopBar): the Dashboard mounts and its effect
\* starts (part_000 lines 8-9, 21-25).
DashMount ==
    /\ dash.pc = "off" /\ Idle /\ NoModal
    /\ dash' = DashState("getUser", NoUser, <<>>, TRUE, Totals(<<>>, now, tz))
    /\ UNCHANGED <<ui, store, env, page, net, last>>

\* The link to /vouchers (TopBar): the Dashboard unmounts (mounted = false,
\* line 39, so its effect sets no state any more) and a fresh Vouchers page
\* mounts, whose effect calls fetchAll.
VouchersMount ==
    /\ dash.pc # "off"
    /\ dash' = DashOff
    /\ list' = <<>> /\ filtered' = <<>> /\ loading' = TRUE
    /\ useItem' = NoItem /\ editItem' = NoItem /\ shown' = <<>>
    /\ net' = <<FetchReq>>
    /\ filterCategory' = "All" /\ search' = <<>> /\ sort' = "created_desc"
    /\ UNCHANGED <<store, env, last>>

\* part_000 lines 25-26: getUser returns; without a user the effect returns.
DashGetUser ==
    /\ dash.pc = "getUser"
    /\ dash' = IF user = NoUser
               THEN [dash EXCEPT !.pc = "done"]
               ELSE [dash EXCEPT !.pc = "select", !.uid = user]
    /\ UNCHANGED <<ui, store, env, page, net, last>>

\* part_000 lines 28-36 and 43-53: the select returns rows; setVouchers,
\* setLoading(false), and the totals are computed from the new rows.
DashSelectData ==
    /\ dash.pc = "select"
    /\ \E data \in Selections(store, dash.uid) :
          dash' = DashState("done", dash.uid, data, FALSE, Totals(data, now, tz))
    /\ UNCHANGED <<ui, store, env, page, net, last>>

\* part_000 lines 35-36: the select fails; setLoading(false) only.
DashSelectError ==
    /\ dash.pc = "select"
    /\ dash' = [dash EXCEPT !.pc = "done", !.loading = FALSE]
    /\ UNCHANGED <<ui, store, env, page, net, last>>

\* -------------------------------------------------------------------- add
\* Before each handler stand variants of it with one plausible fault each.

\* addVoucher without the name check of line 369.
AddOutcomeNoName(u, nameT, valueT, usedT, cat, codeT, pinT, exp) ==
    LET numericValue       == Number(StripZeros(valueT))
        numericInitialUsed == IF usedT # <<>> THEN Number(StripZeros(usedT)) ELSE Num(0)
    IN  IF u = NoUser THEN [stage |-> "noop", alert |-> ""]
        ELSE IF ~IsFinite(numericValue) \/ numericValue.n <= 0
             THEN [stage |-> "rejected", alert |-> "Enter a valid amount > 0"]
        ELSE IF ~IsFinite(numericInitialUsed) \/ numericInitialUsed.n < 0
             THEN [stage |-> "rejected", alert |-> "Initial used amount must be >= 0"]
        ELSE IF numericInitialUsed.n > numericValue.n
             THEN [stage |-> "rejected", alert |-> "Initial used amount cannot exceed total value"]
        ELSE [stage |-> "sent", alert |-> "",
              insert |->
                [user_id |-> u, name |-> Trim(nameT), value |-> numericValue.n,
                 spent |-> numericInitialUsed.n, category |-> cat,
                 code |-> TrimOrNull(codeT), pin |-> TrimOrNull(pinT),
                 expires_on |-> exp,
                 status |-> IF numericInitialUsed.n >= numericValue.n
                            THEN "used" ELSE "unused"]]

\* addVoucher inserting every voucher as unused, whatever was used already.
AddOutcomeUnused(u, nameT, valueT, usedT, cat, codeT, pinT, exp) ==
    LET numericValue       == Number(StripZeros(valueT))
        numericInitialUsed == IF usedT # <<>> THEN Number(StripZeros(usedT)) ELSE Num(0)
    IN  IF u = NoUser THEN [stage |-> "noop", alert |-> ""]
        ELSE IF Trim(nameT) = <<>>
             THEN [stage |-> "rejected", alert |-> "Please enter name"]
        ELSE IF ~IsFinite(numericValue) \/ numericValue.n <= 0
             THEN [stage |-> "rejected", alert |-> "Enter a valid amount > 0"]
        ELSE IF ~IsFinite(numericInitialUsed) \/ numericInitialUsed.n < 0
             THEN [stage |-> "rejected", alert |-> "Initial used amount must be >= 0"]
        ELSE IF numericInitialUsed.n > numericValue.n
             THEN [stage |-> "rejected", alert |-> "Initial used amount cannot exceed total value"]
        ELSE [stage |-> "sent", alert |-> "",
              insert |->
                [user_id |-> u, name |-> Trim(nameT), value |-> numericValue.n,
                 spent |-> numericInitialUsed.n, category |-> cat,
                 code |-> TrimOrNull(codeT), pin |-> TrimOrNull(pinT),
                 expires_on |-> exp, status |-> "unused"]]

\* addVoucher, lines 358-389: up to the insert being sent.
AddOutcome(u, nameT, valueT, usedT, cat, codeT, pinT, exp) ==
    LET numericValue       == Number(StripZeros(valueT))
        numericInitialUsed == IF usedT # <<>> THEN Number(StripZeros(usedT)) ELSE Num(0)
    IN  IF u = NoUser THEN [stage |-> "noop", alert |-> ""]
        ELSE IF Trim(nameT) = <<>>
             THEN [stage |-> "rejected", alert |-> "Please enter name"]
        ELSE IF ~IsFinite(numericValue) \/ numericValue.n <= 0
             THEN [stage |-> "rejected", alert |-> "Enter a valid amount > 0"]
        ELSE IF ~IsFinite(numericInitialUsed) \/ numericInitialUsed.n < 0
             THEN [stage |-> "rejected", alert |-> "Initial used amount must be >= 0"]
        ELSE IF numericInitialUsed.n > numericValue.n
             THEN [stage |-> "rejected", alert |-> "Initial used amount cannot exceed total value"]
        ELSE [stage |-> "sent", alert |-> "",
              insert |->
                [user_id |-> u, name |-> Trim(nameT), value |-> numericValue.n,
                 spent |-> numericInitialUsed.n, category |-> cat,
                 code |-> TrimOrNull(codeT), pin |-> TrimOrNull(pinT),
                 expires_on |-> exp,
                 status |-> IF numericInitialUsed.n >= numericValue.n
                            THEN "used" ELSE "unused"]]

\* What is wrong with the Add form, in the words of the rules: a blank
\* name, a value that is not a finite number > 0, an initial used amount
\* that is not a finite number >= 0, or one above the value.
AddFlaws(nameT, valueT, usedT) ==
    LET v == Number(valueT)
        i == IF usedT = <<>> THEN Num(0) ELSE Number(usedT)
    IN  (IF \A k \in 1..Len(nameT) : nameT[k] = " " THEN {"name"} ELSE {})
        \cup (IF ~v.fin \/ v.n <= 0 THEN {"value"} ELSE {})
        \cup (IF ~i.fin \/ i.n < 0 THEN {"used"} ELSE {})
        \cup (IF v.fin /\ i.fin /\ i.n > v.n THEN {"over"} ELSE {})

addVoucher(nameT, valueT, usedT, cat, codeT, pinT, exp) ==
    LET o == AddOutcome(user, nameT, valueT, usedT, cat, codeT, pinT, exp)
        f == [flaws |-> AddFlaws(nameT, valueT, usedT)]
        w == [kind |-> "write", op |-> "add", id |-> 0, rows |-> <<o.insert>>,
              by |-> user, typed |-> [value |-> valueT, used |-> usedT]] @@ f
    IN  /\ NoModal
        /\ Len(store) < MaxVouchers
        /\ last' = Ran("add", o.stage, o.alert, IF o.stage = "sent" THEN w ELSE f)
        /\ net' = IF o.stage = "sent" THEN Append(net, w) ELSE net
        /\ UNCHANGED <<dash, ui, store, env, page>>

\* ----------------------------------------------------------------- delete
\* remove, lines 404-406; v is the k-th listed voucher.
remove(k, confirmed) ==
    /\ RowsClickable
    /\ k \in 1..Len(filtered)
    /\ LET w == [kind |-> "write", op |-> "remove", id |-> filtered[k].id,
                 snap |-> filtered[k], by |-> user]
       IN  /\ last' = Ran("remove", IF confirmed THEN "sent" ELSE "noop", "",
                          IF confirmed THEN w ELSE [id |-> filtered[k].id])
           /\ net' = IF confirmed THEN Append(net, w) ELSE net
    /\ UNCHANGED <<dash, ui, store, env, page>>

\* ------------------------------------------------------------ partial use
\* openPartialUsage, lines 411-414
openPartialUsage(k) ==
    /\ RowsClickable
    /\ k \in 1..Len(filtered)
    /\ useItem' = filtered[k]
    /\ UNCHANGED <<dash, ui, store, env, list, filtered, loading, editItem, shown, net, last>>

\* The modal's Cancel button, line 893
cancelPartialUsage ==
    /\ useItem # NoItem
    /\ useItem' = NoItem
    /\ UNCHANGED <<dash, ui, store, env, list, filtered, loading, editItem, shown, net, last>>

\* savePartialUsage without the balance check of line 421.
PartialOutcomeNoLimit(item, amountT) ==
    LET amt       == Number(StripZeros(amountT))
        newSpent  == item.spent + amt.n
        newStatus == IF newSpent >= item.value THEN "used" ELSE "unused"
    IN  IF ~IsFinite(amt) \/ amt.n <= 0
        THEN [stage |-> "rejected", alert |-> "Amount must be > 0"]
        ELSE [stage |-> "sent", alert |-> "",
              payload |-> [spent |-> newSpent, status |-> newStatus]]

\* savePartialUsage testing amt < 0 where line 419 tests amt <= 0.
PartialOutcomeZero(item, amountT) ==
    LET amt       == Number(StripZeros(amountT))
        remaining == item.value - item.spent
        newSpent  == item.spent + amt.n
        newStatus == IF newSpent >= item.value THEN "used" ELSE "unused"
    IN  IF ~IsFinite(amt) \/ amt.n < 0
        THEN [stage |-> "rejected", alert |-> "Amount must be > 0"]
        ELSE IF amt.n > remaining
             THEN [stage |-> "rejected", alert |-> "Amount exceeds remaining balance"]
        ELSE [stage |-> "sent", alert |-> "",
              payload |-> [spent |-> newSpent, status |-> newStatus]]

\* savePartialUsage keeping the voucher's status below the value, where
\* line 424 writes "unused".
PartialOutcomeKeepStatus(item, amountT) ==
    LET amt       == Number(StripZeros(amountT))
        remaining == item.value - item.spent
        newSpent  == item.spent + amt.n
        newStatus == IF newSpent >= item.value THEN "used" ELSE item.status
    IN  IF ~IsFinite(amt) \/ amt.n <= 0
        THEN [stage |-> "rejected", alert |-> "Amount must be > 0"]
        ELSE IF amt.n > remaining
             THEN [stage |-> "rejected", alert |-> "Amount exceeds remaining balance"]
        ELSE [stage |-> "sent", alert |-> "",
              payload |-> [spent |-> newSpent, status |-> newStatus]]

\* savePartialUsage, lines 417-429: up to the update being sent.
PartialOutcome(item, amountT) ==
    LET amt       == Number(StripZeros(amountT))
        remaining == item.value - item.spent
        newSpent  == item.spent + amt.n
        newStatus == IF newSpent >= item.value THEN "used" ELSE "unused"
    IN  IF ~IsFinite(amt) \/ amt.n <= 0
        THEN [stage |-> "rejected", alert |-> "Amount must be > 0"]
        ELSE IF amt.n > remaining
             THEN [stage |-> "rejected", alert |-> "Amount exceeds remaining balance"]
        ELSE [stage |-> "sent", alert |-> "",
              payload |-> [spent |-> newSpent, status |-> newStatus]]

savePartialUsage(amountT) ==
    LET o == PartialOutcome(useItem, amountT)
        a == [snap |-> useItem, amount |-> Number(amountT)]
        w == [kind |-> "write", op |-> "partial", id |-> useItem.id,
              payload |-> o.payload, by |-> user] @@ a
    IN  /\ useItem # NoItem
        /\ last' = Ran("partial", o.stage, o.alert, IF o.stage = "sent" THEN w ELSE a)
        /\ net' = IF o.stage = "sent" THEN Append(net, w) ELSE net
        /\ UNCHANGED <<dash, ui, store, env, page>>

\* ------------------------------------------------------------------- edit
\* openEdit, lines 437-447
openEdit(k) ==
    /\ RowsClickable
    /\ k \in 1..Len(filtered)
    /\ editItem' = filtered[k]
    /\ UNCHANGED <<dash, ui, store, env, list, filtered, loading, useItem, shown, net, last>>

\* The modal's Cancel button, line 979
cancelEdit ==
    /\ editItem # NoItem
    /\ editItem' = NoItem
    /\ UNCHANGED <<dash, ui, store, env, list, filtered, loading, useItem, shown, net, last>>

\* list.find((x) => x.id === editItem.id)
Find(l, id) ==
    IF \E k \in 1..Len(l) : l[k].id = id
    THEN l[CHOOSE k \in 1..Len(l) : l[k].id = id /\ \A j \in 1..(k - 1) : l[j].id # id]
    ELSE NoItem

\* saveEdit without the clamp of line 468.
EditOutcomeNoClamp(current, nameT, valueT, cat, codeT, pinT, exp) ==
    LET numericValue == Number(StripZeros(valueT))
        base == [name |-> Trim(nameT), value |-> numericValue.n, category |-> cat,
                 code |-> TrimOrNull(codeT), pin |-> TrimOrNull(pinT), expires_on |-> exp]
        newStatus == IF current.spent >= numericValue.n THEN "used"
                     ELSE IF current.status # "" THEN current.status ELSE "unused"
    IN  IF Trim(nameT) = <<>>
        THEN [stage |-> "rejected", alert |-> "Please enter name"]
        ELSE IF ~IsFinite(numericValue) \/ numericValue.n <= 0
             THEN [stage |-> "rejected", alert |-> "Enter a valid amount > 0"]
        ELSE [stage |-> "sent", alert |-> "",
              payload |-> IF current # NoItem
                          THEN base @@ [spent |-> current.spent, status |-> newStatus]
                          ELSE base]

\* saveEdit, lines 450-473: up to the update being sent.
EditOutcome(current, nameT, valueT, cat, codeT, pinT, exp) ==
    LET numericValue == Number(StripZeros(valueT))
        base == [name |-> Trim(nameT), value |-> numericValue.n, category |-> cat,
                 code |-> TrimOrNull(codeT), pin |-> TrimOrNull(pinT), expires_on |-> exp]
        clampedSpent == Min(current.spent, numericValue.n)
        newStatus == IF clampedSpent >= numericValue.n THEN "used"
                     ELSE IF current.status # "" THEN current.status ELSE "unused"
    IN  IF Trim(nameT) = <<>>
        THEN [stage |-> "rejected", alert |-> "Please enter name"]
        ELSE IF ~IsFinite(numericValue) \/ numericValue.n <= 0
             THEN [stage |-> "rejected", alert |-> "Enter a valid amount > 0"]
        ELSE [stage |-> "sent", alert |-> "",
              payload |-> IF current # NoItem
                          THEN base @@ [spent |-> clampedSpent, status |-> newStatus]
                          ELSE base]

\* What the Edit form can hold for a voucher: the value openEdit put there
\* (lines 439-446) or anything typed over it.
EditNames(v) == {<<" ">>, v.name}

EditValues(v) == NumTexts \cup {NumText(v.value)}

TextOr(x) == IF x = Null THEN <<>> ELSE x

EditCodes(v) == {<<>>, TextOr(v.code)}

EditPins(v) == {<<>>, TextOr(v.pin)}

EditDates(v) == {NoDate, v.expires_on}

\* What is wrong with the Edit form, in the words of the rules.
EditFlaws(nameT, valueT) ==
    LET v == Number(valueT)
    IN  (IF \A k \in 1..Len(nameT) : nameT[k] = " " THEN {"name"} ELSE {})
        \cup (IF ~v.fin \/ v.n <= 0 THEN {"value"} ELSE {})

saveEdit(nameT, valueT, cat, codeT, pinT, exp) ==
    LET current == Find(list, editItem.id)
        o       == EditOutcome(current, nameT, valueT, cat, codeT, pinT, exp)
        f       == [flaws |-> EditFlaws(nameT, valueT)]
        w       == [kind |-> "write", op |-> "edit", id |-> editItem.id,
                    payload |-> o.payload, snap |-> editItem, current |-> current,
                    by |-> user, typed |-> [value |-> valueT]] @@ f
    IN  /\ editItem # NoItem
        /\ last' = Ran("edit", o.stage, o.alert, IF o.stage = "sent" THEN w ELSE f)
        /\ net' = IF o.stage = "sent" THEN Append(net, w) ELSE net
        /\ UNCHANGED <<dash, ui, store, env, page>>

\* toggleStatus leaving spent alone when it marks a voucher unused.
TogglePayloadKeepSpent(v) ==
    IF v.status = "unused"
    THEN [spent |-> v.value, status |-> "used"]
    ELSE [spent |-> v.spent, status |-> "unused"]

\* toggleStatus deciding on the badge the row shows, not on v.status.
TogglePayloadByBadge(v) ==
    IF deriveStatus(v, now, tz) = "unused"
    THEN [spent |-> v.value, status |-> "used"]
    ELSE [spent |-> 0, status |-> "unused"]

\* ----------------------------------------------------------------- toggle
\* toggleStatus, lines 483-486
TogglePayload(v) ==
    IF v.status = "unused"
    THEN [spent |-> v.value, status |-> "used"]
    ELSE [spent |-> 0, status |-> "unused"]

\* The record also keeps the badge the row showed when its button was
\* clicked (line 766) and, when this Toggle directly follows a completed
\* Toggle of the same voucher, the voucher as it was before that one.
toggleStatus(k) ==
    /\ RowsClickable
    /\ k \in 1..Len(filtered)
    /\ LET again == last.op = "toggle" /\ last.stage = "done" /\ last.id = filtered[k].id
           w == [kind |-> "write", op |-> "toggle", id |-> filtered[k].id,
                 payload |-> TogglePayload(filtered[k]), snap |-> filtered[k],
                 badge |-> deriveStatus(filtered[k], now, tz), by |-> user,
                 first |-> IF again THEN last.snap ELSE NoItem]
       IN  /\ last' = Ran("toggle", "sent", "", w)
           /\ net' = Append(net, w)
    /\ UNCHANGED <<dash, ui, store, env, page>>

\* ----------------------------------------------------------------- import
\* A cell of an imported sheet as sheet_to_json gives it (line 576): a text
\* or a number; s is String(cell).  An empty cell is the text "" (defval).
TextCell(t) == [s |-> t, num |-> FALSE]

NumCell(t) == [s |-> t, num |-> TRUE]

\* !cell: the empty text and the number 0.
Falsy(c) == c.s = <<>> \/ (c.num /\ Number(c.s) = Num(0))

NameCells == {TextCell(<<>>), TextCell(<<"A", " ">>)}

ValueCells == {TextCell(<<>>), TextCell(<<"0", "1", ".", "5">>), NumCell(<<"-", "1">>),
               TextCell(<<"a">>)}

SpentCells == {TextCell(<<>>), NumCell(<<"0", ".", "5">>), NumCell(<<"1", "1">>),
               NumCell(<<"-", "1">>)}

\* Sheets of at most MaxRows rows whose cells are drawn from the given sets.
SheetsOf(names, values, spents, cats, stats) ==
    UNION {[1..k -> [name : names, value : values, spent : spents,
                     category : cats, status : stats]] : k \in 0..MaxRows}

\* The sheets of S that are shorter than the longest.
Short(S) == {sh \in S : Len(sh) < MaxRows}

LedgerSheets == Short(SheetsOf(NameCells, ValueCells, SpentCells, {""}, {""}))

\* toNum, lines 578-581
toNum(t) ==
    LET n == Number(StripZeros(t))
    IN  IF IsFinite(n) THEN n.n ELSE 0

\* r.code ? String(r.code) : null, for a column the sheet may lack.
CellOrNull(r, col) ==
    IF col \in DOMAIN r /\ ~Falsy(r[col]) THEN r[col].s ELSE Null

\* importExcel taking the status from the sheet's status column.
ImportRowSheetStatus(u, r) ==
    LET value == toNum(r.value.s)
        spent == Max(0, toNum(IF Falsy(r.spent) THEN <<"0">> ELSE r.spent.s))
    IN  [user_id |-> u,
         name |-> IF Falsy(r.name) THEN <<>> ELSE Trim(r.name.s),
         value |-> value,
         spent |-> Min(spent, value),
         category |-> IF r.category = "" THEN "General" ELSE r.category,
         code |-> CellOrNull(r, "code"), pin |-> CellOrNull(r, "pin"),
         expires_on |-> IF "expires_on" \in DOMAIN r THEN r.expires_on ELSE NoDate,
         status |-> IF r.status # "" THEN r.status
                    ELSE IF spent >= value THEN "used" ELSE "unused"]

\* The map of lines 584-598, for one row of the sheet.  The category and
\* status cells are texts; the expires_on cell is the date its text names
\* (NoDate for the empty cell).
ImportRow(u, r) ==
    LET value == toNum(r.value.s)
        spent == Max(0, toNum(IF Falsy(r.spent) THEN <<"0">> ELSE r.spent.s))
    IN  [user_id |-> u,
         name |-> IF Falsy(r.name) THEN <<>> ELSE Trim(r.name.s),
         value |-> value,
         spent |-> Min(spent, value),
         category |-> IF r.category = "" THEN "General" ELSE r.category,
         code |-> CellOrNull(r, "code"), pin |-> CellOrNull(r, "pin"),
         expires_on |-> IF "expires_on" \in DOMAIN r THEN r.expires_on ELSE NoDate,
         status |-> IF spent >= value THEN "used" ELSE "unused"]

\* lines 583-599
ImportPayload(u, sheet) ==
    SelectSeq([k \in 1..Len(sheet) |-> ImportRow(u, sheet[k])],
              LAMBDA r : r.name # <<>> /\ r.value > 0)

\* A row of the sheet that the rules keep: a name that is not blank and a
\* value that is a finite number > 0.
ValidCells(r) ==
    /\ \E k \in 1..Len(r.name.s) : r.name.s[k] # " "
    /\ Number(r.value.s).fin /\ Number(r.value.s).n > 0

\* importExcel, lines 566-602: up to the insert being sent.
importExcel(sheet) ==
    LET payload == ImportPayload(user, sheet)
        stage   == IF user = NoUser \/ payload = <<>> THEN "rejected" ELSE "sent"
        alert   == IF user = NoUser THEN "Not logged in"
                   ELSE IF payload = <<>> THEN "No valid rows found." ELSE ""
        f       == [flaws |-> IF \E k \in 1..Len(sheet) : ValidCells(sheet[k])
                              THEN {} ELSE {"norows"},
                    sheet |-> sheet]
        w       == [kind |-> "write", op |-> "import", id |-> 0,
                    rows |-> payload, by |-> user] @@ f
    IN  /\ NoModal
        /\ Len(store) + Len(sheet) <= MaxVouchers
        /\ last' = Ran("import", stage, alert, IF stage = "sent" THEN w ELSE f)
        /\ net' = IF stage = "sent" THEN Append(net, w) ELSE net
        /\ UNCHANGED <<dash, ui, store, env, page>>

\* ----------------------------------------------------------------- export
\* The keys of a row of exportExcel, in the order of the object literal
\* (lines 521-530).
Columns ==
    <<"name", "value", "spent", "remaining", "category", "code", "pin",
      "expires_on", "status", "created_at">>

\* exportExcel writing the remaining balance into the spent column.
ExportRowRemainingAsSpent(v, t, off) ==
    [name |-> TextCell(v.name),
     value |-> NumCell(NumText(v.value)),
     spent |-> NumCell(NumText(Max(0, v.value - v.spent))),
     remaining |-> NumCell(NumText(Max(0, v.value - v.spent))),
     category |-> v.category,
     code |-> TextCell(TextOr(v.code)), pin |-> TextCell(TextOr(v.pin)),
     expires_on |-> v.expires_on,
     status |-> deriveStatus(v, t, off),
     created_at |-> v.created_at]

\* The row of one voucher, lines 520-531.
ExportRow(v, t, off) ==
    [name |-> TextCell(v.name),
     value |-> NumCell(NumText(v.value)),
     spent |-> NumCell(NumText(v.spent)),
     remaining |-> NumCell(NumText(Max(0, v.value - v.spent))),
     category |-> v.category,
     code |-> TextCell(TextOr(v.code)), pin |-> TextCell(TextOr(v.pin)),
     expires_on |-> v.expires_on,
     status |-> deriveStatus(v, t, off),
     created_at |-> v.created_at]

\* headers, line 545: Object.keys(rows[0] ?? { sample: "" })
ExportHeaders(l) == IF l = <<>> THEN <<"sample">> ELSE Columns

\* data, line 546: the header row, then the cells of every row in the
\* order of the headers.
ExportData(l, t, off) ==
    LET headers == ExportHeaders(l)
    IN  <<headers>> \o
        [k \in 1..Len(l) |->
            [j \in 1..Len(headers) |-> ExportRow(l[k], t, off)[headers[j]]]]

\* The rows sheet_to_json reads from a sheet (line 576): one record per row
\* below the header row, keyed by the headers.
ReadSheet(data) ==
    LET headers == data[1]
    IN  [k \in 1..(Len(data) - 1) |->
            [h \in {headers[j] : j \in 1..Len(headers)} |->
                data[k + 1][CHOOSE j \in 1..Len(headers) : headers[j] = h]]]

\* exportExcel, lines 519-549: the sheet handed to writeFile.  The page
\* itself is left as it is.
exportExcel ==
    /\ NoModal
    /\ last' = Ran("export", "done", "",
                   [headers |-> ExportHeaders(list), data |-> ExportData(list, now, tz),
                    snap |-> list, at |-> now])
    /\ UNCHANGED <<dash, ui, store, env, page, net>>

\* ------------------------------------------------- the table's answers
\* What a write does to the table when the table accepts it.
Written(tbl, w) ==
    IF w.op \in {"add", "import"} THEN InsertRows(tbl, w.rows)
    ELSE IF w.op = "remove" THEN DeleteRow(tbl, w.id)
    ELSE UpdateRow(tbl, w.id, w.payload)

\* alert(error.message) is reached in addVoucher (390), savePartialUsage
\* (431), saveEdit (474) and importExcel (603); remove (407) and
\* toggleStatus (489) only test !error.
AlertsError(op) == op \in {"add", "partial", "edit", "import"}

\* The table answers the write without an error; the handler resumes after
\* its await, closes its modal and calls fetchAll, which sets loading (line
\* 276).  A voucher is visible only to its owner: a request sent without a
\* session matches no row and changes nothing.
WriteDone(i) ==
    /\ i \in 1..Len(net)
    /\ net[i].kind = "write"
    /\ store' = IF net[i].by = NoUser THEN store ELSE Written(store, net[i])
    /\ useItem' = IF net[i].op = "partial" THEN NoItem ELSE useItem
    /\ editItem' = IF net[i].op = "edit" THEN NoItem ELSE editItem
    /\ loading' = TRUE
    /\ net' = Append(Without(net, i), FetchReq)
    /\ last' = Ran(net[i].op, "done", "", net[i])
    /\ UNCHANGED <<dash, ui, env, list, filtered, shown>>

\* The table rejects or fails the write; the handler resumes with an error.
WriteFailed(i) ==
    /\ i \in 1..Len(net)
    /\ net[i].kind = "write"
    /\ net' = Without(net, i)
    /\ last' = Ran(net[i].op, "failed",
                   IF AlertsError(net[i].op) THEN "store error" ELSE "",
                   net[i])
    /\ UNCHANGED <<dash, ui, store, env, page>>

\* ------------------------------------------------------------ the ledger
\* Every mutation with every numeric input, for one user in one time zone
\* with the clock standing still.  One user action at a time: the next one
\* waits until the write and the re-fetch of the previous one have
\* completed, and the table answers every fetch.
Init == Start({"u1"}, {0})

Next ==
    \/ Idle /\ \E nameT \in NameTexts, valueT \in NumTexts, usedT \in NumTexts :
                  addVoucher(nameT, valueT, usedT, "General", <<>>, <<>>, NoDate)
    \/ Idle /\ \E k \in 1..Len(filtered), confirmed \in BOOLEAN : remove(k, confirmed)
    \/ Idle /\ \E k \in 1..Len(filtered) : openPartialUsage(k)
    \/ Idle /\ cancelPartialUsage
    \/ Idle /\ \E amountT \in NumTexts : savePartialUsage(amountT)
    \/ Idle /\ \E k \in 1..Len(filtered) : openEdit(k)
    \/ Idle /\ cancelEdit
    \/ Idle /\ editItem # NoItem
            /\ \E nameT \in EditNames(editItem), valueT \in EditValues(editItem),
                  codeT \in EditCodes(editItem), pinT \in EditPins(editItem),
                  exp \in EditDates(editItem) :
                    saveEdit(nameT, valueT, editItem.category, codeT, pinT, exp)
    \/ Idle /\ \E k \in 1..Len(filtered) : toggleStatus(k)
    \/ Idle /\ \E sheet \in LedgerSheets : importExcel(sheet)
    \/ \E i \in 1..Len(net) : FetchData(i)
    \/ \E i \in 1..Len(net) : FetchDeliver(i)
    \/ \E i \in 1..Len(net) : WriteDone(i)
    \/ \E i \in 1..Len(net) : WriteFailed(i)

Spec == Init /\ [][Next]_vars

\* ------------------------------------------------------------- the clock
\* The same page while time passes, in every time zone: vouchers with and
\* without an expiry date, every mutation with one input of each kind, and
\* the render that derives the status badges.  One voucher is followed
\* through its life.  A request is short beside half a day: the clock moves
\* between user actions.
ClockInit == Start({"u1"}, TZOffsets)

One == <<"1">>

ClockSheets ==
    Short(SheetsOf({TextCell(<<"A">>)}, {TextCell(<<"0", "2">>)},
                   {TextCell(<<>>), NumCell(<<"2">>)}, {""}, {"", "expired"}))

ClockNext ==
    \/ Idle /\ store = <<>>
            /\ \E usedT \in {<<>>, One}, exp \in {NoDate} \cup Dates :
                  addVoucher(<<"A">>, One, usedT, "General", <<>>, <<>>, exp)
    \/ Idle /\ \E k \in 1..Len(filtered) : openPartialUsage(k)
    \/ Idle /\ cancelPartialUsage
    \/ Idle /\ savePartialUsage(One)
    \/ Idle /\ \E k \in 1..Len(filtered) : openEdit(k)
    \/ Idle /\ cancelEdit
    \/ Idle /\ editItem # NoItem
            /\ \E exp \in {NoDate} \cup Dates :
                  saveEdit(editItem.name, NumText(editItem.value), editItem.category,
                           TextOr(editItem.code), TextOr(editItem.pin), exp)
    \/ Idle /\ \E k \in 1..Len(filtered) : toggleStatus(k)
    \/ Idle /\ store = <<>> /\ \E sheet \in ClockSheets : importExcel(sheet)
    \/ Idle /\ Render
    \/ Idle /\ NoModal /\ Tick
    \/ \E i \in 1..Len(net) : FetchData(i)
    \/ \E i \in 1..Len(net) : FetchDeliver(i)
    \/ \E i \in 1..Len(net) : WriteDone(i)
    \/ \E i \in 1..Len(net) : WriteFailed(i)

ClockSpec == ClockInit /\ [][ClockNext]_vars

\* ------------------------------------------------------------ the sheets
\* Import and export: sheets of up to MaxRows rows with text and number
\* cells, a status column and rows that are to be dropped; vouchers added
\* by hand, with a code and an expiry date; the exported sheet, and the
\* exported sheet imported again.
SheetInit == Start({"u1"}, {0})

Zero == <<"0">>

SheetSheets ==
    SheetsOf({TextCell(<<>>), TextCell(<<"A", " ">>), NumCell(Zero)},
             {TextCell(<<"0", "1", ".", "5">>), NumCell(Zero)},
             {NumCell(<<"1", "1">>), NumCell(<<"-", "1">>)},
             {""}, {"expired"})

SheetNext ==
    \/ Idle /\ \E usedT \in {<<>>, <<"0", ".", "5">>}, codeT \in {<<>>, Zero},
                  exp \in {NoDate} \cup Dates :
                  addVoucher(Zero, One, usedT, "Food", codeT, <<>>, exp)
    \/ Idle /\ \E sheet \in SheetSheets : importExcel(sheet)
    \/ Idle /\ ~loading /\ exportExcel
    \/ Idle /\ ~loading /\ importExcel(ReadSheet(ExportData(list, now, tz)))
    \/ Idle /\ \E k \in 1..Len(filtered) : toggleStatus(k)
    \/ Idle /\ NoModal /\ store # <<>> /\ Tick
    \/ \E i \in 1..Len(net) : FetchData(i)
    \/ \E i \in 1..Len(net) : FetchDeliver(i)
    \/ \E i \in 1..Len(net) : WriteDone(i)
    \/ \E i \in 1..Len(net) : WriteFailed(i)

SheetSpec == SheetInit /\ [][SheetNext]_vars

\* ---------------------------------------------------------------- the view
\* The list on the page: vouchers that differ in name, value, spent, category,
\* code and expiry date, and every setting of the category filter, the search
\* box and the sort selector, while the clock moves.
ViewInit == Start({"u1"}, {0})

Two == <<"2">>

ViewForms ==
    {[name |-> <<"A", "b">>, value |-> One, used |-> <<>>, category |-> "General",
      code |-> <<>>, exp |-> NoDate],
     [name |-> <<"A", "b">>, value |-> Two, used |-> One, category |-> "General",
      code |-> <<"k", "9">>, exp |-> 1],
     [name |-> <<"b">>, value |-> Two, used |-> Two, category |-> "Food",
      code |-> <<>>, exp |-> 2],
     [name |-> <<"A", "b">>, value |-> One, used |-> <<>>, category |-> "Food",
      code |-> <<>>, exp |-> NoDate]}

SearchTexts ==
    {<<>>, <<" ">>, <<"A">>, <<" ", "K", "9">>, <<"O", "o">>, <<"x">>}

ViewNext ==
    \/ Idle /\ \E f \in ViewForms :
                  addVoucher(f.name, f.value, f.used, f.category, f.code, <<>>, f.exp)
    \/ Idle /\ NoModal /\ \E cat \in {"All"} \cup categories : setFilterCategory(cat)
    \/ Idle /\ NoModal /\ \E text \in SearchTexts : setSearch(text)
    \/ Idle /\ NoModal /\ \E key \in SortKeys : setSort(key)
    \/ Idle /\ NoModal /\ Tick
    \/ \E i \in 1..Len(net) : FetchData(i)
    \/ \E i \in 1..Len(net) : FetchDeliver(i)
    \/ \E i \in 1..Len(net) : WriteDone(i)
    \/ \E i \in 1..Len(net) : WriteFailed(i)

ViewSpec == ViewInit /\ [][ViewNext]_vars

\* ------------------------------------------------------------ the session
\* The page while the session ends and a user signs in again, and while the
\* table fails requests: one input of each kind, one user action at a time.
\* The session can end at any moment, also while a request is on its way.
SessionInit == Start({"u1"}, {0})

SessionNext ==
    \/ Idle /\ addVoucher(<<"A">>, One, <<>>, "General", <<>>, <<>>, NoDate)
    \/ Idle /\ \E k \in 1..Len(filtered) : remove(k, TRUE)
    \/ Idle /\ \E k \in 1..Len(filtered) : openPartialUsage(k)
    \/ Idle /\ cancelPartialUsage
    \/ Idle /\ savePartialUsage(One)
    \/ Idle /\ \E k \in 1..Len(filtered) : openEdit(k)
    \/ Idle /\ cancelEdit
    \/ Idle /\ editItem # NoItem
            /\ saveEdit(editItem.name, Two, editItem.category,
                        TextOr(editItem.code), TextOr(editItem.pin), editItem.expires_on)
    \/ Idle /\ \E k \in 1..Len(filtered) : toggleStatus(k)
    \/ Idle /\ importExcel(<<[name |-> TextCell(<<"A">>), value |-> TextCell(Two),
                              spent |-> TextCell(<<>>), category |-> "",
                              status |-> ""]>>)
    \/ SessionEnd
    \/ SignIn("u1")
    \/ \E i \in 1..Len(net) : FetchData(i)
    \/ \E i \in 1..Len(net) : FetchError(i)
    \/ \E i \in 1..Len(net) : FetchNoUser(i)
    \/ \E i \in 1..Len(net) : FetchDeliver(i)
    \/ \E i \in 1..Len(net) : WriteDone(i)
    \/ \E i \in 1..Len(net) : WriteFailed(i)

SessionSpec == SessionInit /\ [][SessionNext]_vars

\* ------------------------------------------------------------- the network
\* The page as it is: the Save button of the Add form is enabled while the
\* list is loading, and the row buttons until fetchAll sets loading, so a
\* handler can start while the request of another one is on its way, and
\* the answers arrive in any order.  The store answers every request
\* without an error, and the session lasts.
AsyncInit == Start({"u1"}, {0})

AsyncNext ==
    \/ Len(net) < MaxPending
            /\ \E usedT \in {<<>>, One} :
                  addVoucher(<<"A">>, One, usedT, "General", <<>>, <<>>, NoDate)
    \/ Len(net) < MaxPending /\ \E k \in 1..Len(filtered) : toggleStatus(k)
    \/ Len(net) < MaxPending /\ \E k \in 1..Len(filtered) : remove(k, TRUE)
    \/ \E i \in 1..Len(net) : FetchData(i)
    \/ \E i \in 1..Len(net) : FetchDeliver(i)
    \/ \E i \in 1..Len(net) : WriteDone(i)

AsyncSpec == AsyncInit /\ [][AsyncNext]_vars

\* ---------------------------------------------------------------- the race
\* One voucher of value 2 with 1 spent, and the handlers that compute spent
\* from the row as the page holds it: Partial Use of 1, Mark Used, and an
\* Edit that lowers the value to 1, while requests overlap and their answers
\* arrive in any order.  The store answers every request without an error.
RaceInit == Start({"u1"}, {0})

RaceNext ==
    \/ Idle /\ store = <<>>
            /\ addVoucher(<<"A">>, Two, One, "General", <<>>, <<>>, NoDate)
    \/ Len(net) < MaxPending /\ \E k \in 1..Len(filtered) : openPartialUsage(k)
    \/ Len(net) < MaxPending /\ savePartialUsage(One)
    \/ Len(net) < MaxPending /\ \E k \in 1..Len(filtered) : openEdit(k)
    \/ Len(net) < MaxPending /\ editItem # NoItem /\ editItem.value = Number(Two).n
            /\ saveEdit(editItem.name, One, editItem.category,
                        TextOr(editItem.code), TextOr(editItem.pin), editItem.expires_on)
    \/ Len(net) < MaxPending
            /\ \E k \in 1..Len(filtered) : filtered[k].status = "unused" /\ toggleStatus(k)
    \/ \E i \in 1..Len(net) : FetchData(i)
    \/ \E i \in 1..Len(net) : FetchDeliver(i)
    \/ \E i \in 1..Len(net) : WriteDone(i)

RaceSpec == RaceInit /\ [][RaceNext]_vars

\* -------------------------------------------------------------- the owners
\* Two users take turns at the same browser and the same table: one signs
\* out (or the session expires), the other signs in, and each adds,
\* imports, edits, toggles and deletes vouchers, one user action at a time.
OwnerInit == Start(Users, {0})

OwnerNext ==
    \/ Idle /\ addVoucher(<<"A">>, Two, <<>>, "General", <<>>, <<>>, NoDate)
    \/ Idle /\ importExcel(<<[name |-> TextCell(<<"A">>), value |-> TextCell(One),
                              spent |-> TextCell(<<>>), category |-> "",
                              status |-> ""]>>)
    \/ Idle /\ \E k \in 1..Len(filtered) : remove(k, TRUE)
    \/ Idle /\ \E k \in 1..Len(filtered) : openEdit(k)
    \/ Idle /\ editItem # NoItem
            /\ saveEdit(<<"B">>, NumText(editItem.value), editItem.category,
                        TextOr(editItem.code), TextOr(editItem.pin), editItem.expires_on)
    \/ Idle /\ \E k \in 1..Len(filtered) : toggleStatus(k)
    \/ SessionEnd
    \/ \E u \in Users : SignIn(u)
    \/ \E i \in 1..Len(net) : FetchData(i)
    \/ \E i \in 1..Len(net) : FetchNoUser(i)
    \/ \E i \in 1..Len(net) : FetchDeliver(i)
    \/ \E i \in 1..Len(net) : WriteDone(i)

OwnerSpec == OwnerInit /\ [][OwnerNext]_vars

\* ---------------------------------------------------------- the dashboard
\* The application opens on /dashboard (App.tsx, route "/") over a table
\* that already holds rows of the user, also rows without a status, with
\* the Vouchers page one link away.  The session can end (a token revoked
\* at the server leaves the local session that the route guard reads), the
\* table can fail a select, and the clock moves.  Every call that was made
\* returns: the steps that answer one are fair.
DashRows ==
    {[user_id |-> "u1", name |-> <<"A">>, value |-> Number(Two).n, spent |-> sp,
      category |-> "General", code |-> Null, pin |-> Null, expires_on |-> exp,
      status |-> st] :
        sp \in {0}, exp \in {NoDate, 1}, st \in {"unused", "used", ""}}

DashTables ==
    {InsertRows(<<>>, rows) : rows \in UNION {[1..n -> DashRows] : n \in 0..MaxVouchers}}

DashInit ==
    /\ store \in DashTables
    /\ user = "u1" /\ now = 0 /\ tz = 0
    /\ VouchersOff
    /\ last = [op |-> "none", stage |-> "none", alert |-> ""]
    /\ dash = DashState("getUser", NoUser, <<>>, TRUE, Totals(<<>>, 0, 0))

DashNext ==
    \/ DashGetUser
    \/ DashSelectData
    \/ DashSelectError
    \/ VouchersMount
    \/ DashMount
    \/ SessionEnd
    \/ Tick
    \/ \E i \in 1..Len(net) : FetchData(i)
    \/ \E i \in 1..Len(net) : FetchError(i)
    \/ \E i \in 1..Len(net) : FetchNoUser(i)
    \/ \E i \in 1..Len(net) : FetchDeliver(i)

DashSpec ==
    /\ DashInit /\ [][DashNext]_vars
    /\ WF_vars(DashGetUser)
    /\ WF_vars(DashSelectData \/ DashSelectError)
    /\ WF_vars(\E i \in 1..Len(net) : FetchData(i) \/ FetchError(i) \/ FetchNoUser(i))
    /\ WF_vars(\E i \in 1..Len(net) : FetchDeliver(i))

\* ================================================================ properties
\* In the formulas below `last` is the record of the latest handler run:
\* last.snap is the voucher as the page listed it when the handler started,
\* last.payload the object it handed to update, last.rows the rows it handed
\* to insert.

Settled == Idle /\ ~loading

\* ---------------------------------------------------------------------- C1
\* C1: from an empty table, after any sequence of Add, Partial Use, Toggle,
\* Edit, Delete and Bulk Import issued one at a time, every stored voucher
\* has 0 <= spent <= value.
C1_SpentWithinValue ==
    \A i \in Live : 0 <= store[i].spent /\ store[i].spent <= store[i].value

\* An Edit has lowered the value below what was spent, and two vouchers are
\* stored.
C1_Witness ==
    /\ Settled
    /\ last.op = "edit" /\ last.stage = "done"
    /\ last.payload.value < last.snap.spent
    /\ Row(last.id).spent = Row(last.id).value
    /\ Cardinality(Live) = 2

\* ---------------------------------------------------------------------- C2
\* C2: Partial Use with amount a on voucher v, remaining = value - spent.
\* If 0 < a <= remaining the update sets spent to spent + a.  If a is not
\* finite, a <= 0 or a > remaining, the operation is rejected with a
\* message, no write is issued and v stays as it was.
C2_PartialUse ==
    last.op = "partial" =>
        LET v         == last.snap
            a         == last.amount
            remaining == v.value - v.spent
            fits      == a.fin /\ 0 < a.n /\ a.n <= remaining
        IN  /\ fits  => /\ last.stage \in {"sent", "done", "failed"}
                        /\ last.payload.spent = v.spent + a.n
                        /\ last.stage = "done" => Row(v.id).spent = v.spent + a.n
            /\ ~fits => /\ last.stage = "rejected"
                        /\ last.alert # ""
                        /\ net = <<>>
                        /\ Row(v.id) = v

\* A second Partial Use has been written: spent was positive before it.
C2_Witness ==
    /\ last.op = "partial" /\ last.stage = "done"
    /\ last.snap.spent > 0
    /\ Row(last.id).spent = last.snap.spent + last.amount.n
    /\ Row(last.id).spent <= Row(last.id).value

C4_ToggleTwiceRestores ==
    (last.op = "toggle" /\ last.stage = "done" /\ last.first # NoItem) =>
        /\ Row(last.id).status = last.first.status
        /\ Row(last.id).spent = last.first.spent

\* C4 as the code has it: Toggle applied twice restores the status; spent
\* ends at 0 for a voucher that was unused and at value for one that was
\* used, which is the spent it had only if it was at that end already.
C4_ToggleTwiceStatus ==
    (last.op = "toggle" /\ last.stage = "done" /\ last.first # NoItem) =>
        /\ Row(last.id).status = last.first.status
        /\ Row(last.id).spent =
              IF last.first.status = "unused" THEN 0 ELSE last.first.value
        /\ Row(last.id) = [last.first EXCEPT !.spent = Row(last.id).spent]

\* Two Toggles of a partly spent voucher: the status is back, spent is not.
C4_Witness ==
    /\ last.op = "toggle" /\ last.stage = "done" /\ last.first # NoItem
    /\ 0 < last.first.spent /\ last.first.spent < last.first.value
    /\ Row(last.id).status = last.first.status
    /\ Row(last.id).spent # last.first.spent

\* ---------------------------------------------------------------------- C5
\* C5: Toggle writes spent = value and status = used to a voucher whose
\* persisted status is unused, and spent = 0 and status = unused to one
\* whose persisted status is used, whatever badge the row shows; it writes
\* no other field.
C5_TogglePayload ==
    last.op = "toggle" =>
        /\ last.snap.status = "unused" =>
              last.payload = [spent |-> last.snap.value, status |-> "used"]
        /\ last.snap.status = "used" =>
              last.payload = [spent |-> 0, status |-> "unused"]
        /\ last.stage = "done" =>
              Row(last.id) = [last.snap EXCEPT !.spent = last.payload.spent,
                                               !.status = last.payload.status]

\* A voucher shown as expired whose persisted status was unused has been
\* toggled, and is now used with all of its value spent.
C5_Witness ==
    /\ last.op = "toggle" /\ last.stage = "done"
    /\ last.badge = "expired" /\ last.snap.status = "unused"
    /\ last.snap.spent < last.snap.value
    /\ Row(last.id).status = "used"
    /\ Row(last.id).spent = Row(last.id).value

\* ---------------------------------------------------------------------- C6
\* C6: deriveStatus(v) at time now is expired exactly when v has an expiry
\* date and now is strictly after the last instant of that calendar day
\* where the page runs; in every other case it is the persisted status.
C6_ExpiredAfterEndOfDay ==
    \A k \in 1..Len(list) :
        LET v   == list[k]
            end == (v.expires_on * DayLen + (DayLen - 1)) - tz
        IN  deriveStatus(v, now, tz) =
                IF v.expires_on # NoDate /\ now > end THEN "expired" ELSE v.status

\* ---------------------------------------------------------------------- C7
\* C7: expired is never persisted.  No stored voucher has status expired, no
\* insert or update in flight or completed carries status expired, and a
\* render that derives the badges writes nothing, also after an expiry date
\* has passed.
C7_NoExpiredStored ==
    /\ \A i \in Live : store[i].status \in {"unused", "used"}
    /\ \A i \in 1..Len(net) :
          net[i].kind = "write" =>
              /\ "payload" \in DOMAIN net[i] /\ "status" \in DOMAIN net[i].payload
                    => net[i].payload.status \in {"unused", "used"}
              /\ "rows" \in DOMAIN net[i]
                    => \A j \in 1..Len(net[i].rows) :
                          net[i].rows[j].status \in {"unused", "used"}

C7_RenderWritesNothing ==
    [][shown' # shown => store' = store /\ net' = net]_vars

C7_ExpiredNeverPersisted == []C7_NoExpiredStored /\ C7_RenderWritesNothing

\* The page shows a voucher as expired that the table holds as unused, and a
\* Partial Use of it has been written since.
C7_Witness ==
    /\ Settled /\ Len(shown) = Len(list)
    /\ last.op = "partial" /\ last.stage = "done"
    /\ \E k \in 1..Len(list) :
          /\ shown[k] = "expired"
          /\ deriveStatus(list[k], now, tz) = "expired"
          /\ Row(list[k].id).status = "unused"

\* ---------------------------------------------------------------------- C8
\* C8: a validation failure never reaches the table.  An Add with a blank
\* name, a value that is not a finite number > 0, or an initial used amount
\* that is not a finite number >= 0 or is above the value; an Edit with a
\* blank name or such a value; an import without a valid row: each shows a
\* message, issues no write and leaves the table and the list as they were.
\* Every other Add, Edit and import issues its write.
C8_Forms == {"add", "edit", "import"}

C8_FlawsRejected ==
    last.op \in C8_Forms =>
        /\ last.flaws # {} <=> last.stage = "rejected"
        /\ last.stage = "rejected" => last.alert # "" /\ net = <<>>

C8_RejectedChangesNothing ==
    [][(last' # last /\ last'.op \in C8_Forms /\ last'.stage = "rejected")
          => store' = store /\ list' = list /\ net' = net /\ net = <<>>]_vars

C8_ValidationFailure == []C8_FlawsRejected /\ C8_RejectedChangesNothing

\* An Add whose initial used amount is above its value has been rejected
\* while a voucher is stored and listed.
C8_Witness ==
    /\ last.op = "add" /\ last.stage = "rejected"
    /\ last.flaws = {"over"}
    /\ Live # {} /\ Len(list) = Cardinality(Live)

\* ---------------------------------------------------------------------- C9
\* C9: a valid Add inserts exactly one voucher, owned by the current user,
\* with spent = the initial used amount (0 when the field is empty) and
\* status used if that amount >= value, else unused.
C9_AddInserted ==
    (last.op = "add" /\ last.stage = "done") =>
        LET r           == store[Len(store)]
            value       == Number(last.typed.value).n
            initialUsed == IF last.typed.used = <<>> THEN 0
                           ELSE Number(last.typed.used).n
        IN  /\ last.flaws = {}
            /\ Len(last.rows) = 1
            /\ r.user_id = last.by /\ last.by = user
            /\ r.value = value
            /\ r.spent = initialUsed
            /\ r.status = IF initialUsed >= value THEN "used" ELSE "unused"

C9_OneRowMore ==
    [][(last'.op = "add" /\ last'.stage = "done" /\ last' # last)
          => /\ Len(store') = Len(store) + 1
             /\ SubSeq(store', 1, Len(store)) = store]_vars

C9_ValidAdd == []C9_AddInserted /\ C9_OneRowMore

\* A second voucher has been added with all of its value used already.
C9_Witness ==
    /\ last.op = "add" /\ last.stage = "done"
    /\ Len(store) = 2
    /\ store[2].spent = store[2].value /\ store[2].status = "used"
    /\ store[2].user_id = user

\* --------------------------------------------------------------------- C10
\* C10: a valid Edit to the value value' writes spent' = min(spent, value'),
\* never more than spent, and status' = used if spent' >= value', else the
\* persisted status the voucher had.
C10_EditClamps ==
    (last.op = "edit" /\ last.stage \in {"sent", "done", "failed"}) =>
        LET v      == last.snap
            value1 == Number(last.typed.value).n
            spent1 == IF v.spent <= value1 THEN v.spent ELSE value1
            p      == last.payload
        IN  /\ last.flaws = {}
            /\ p.value = value1
            /\ p.spent = spent1 /\ p.spent <= v.spent
            /\ p.status = IF spent1 >= value1 THEN "used" ELSE v.status
            /\ last.stage = "done" =>
                  /\ Row(v.id).value = value1
                  /\ Row(v.id).spent = spent1
                  /\ Row(v.id).status = p.status

\* The value of a used voucher has been raised by an Edit: spent stays and
\* the status stays used.
C10_Witness ==
    /\ last.op = "edit" /\ last.stage = "done"
    /\ last.snap.status = "used"
    /\ last.payload.value > last.snap.value
    /\ Row(last.id).spent = last.snap.spent
    /\ Row(last.id).spent < Row(last.id).value
    /\ Row(last.id).status = "used"

\* --------------------------------------------------------------------- C11
\* C11: Bulk Import inserts, in one batch, exactly the rows of the sheet
\* that have a name that is not blank and a value > 0, in their order; each
\* inserted row has spent clamped into [0, value] and status used if
\* spent >= value, else unused, whatever the sheet's status column says.
C11_ImportKeepsValidRows ==
    last.op = "import" =>
        LET num(c)      == IF Number(c.s).fin THEN Number(c.s).n ELSE 0
            clamp(x, v) == IF x < 0 THEN 0 ELSE IF x > v THEN v ELSE x
            kept        == SelectSeq(last.sheet, ValidCells)
            rows        == IF last.stage = "rejected" THEN <<>> ELSE last.rows
        IN  /\ Len(rows) = Len(kept)
            /\ \A k \in 1..Len(rows) :
                  /\ k <= Len(kept)
                  /\ rows[k].name = Trim(kept[k].name.s)
                  /\ rows[k].value = num(kept[k].value)
                  /\ rows[k].spent = clamp(num(kept[k].spent), rows[k].value)
                  /\ rows[k].status =
                        IF rows[k].spent >= rows[k].value THEN "used" ELSE "unused"

\* --------------------------------------------------------------------- C12
\* C12: when the sheet exported from the list is imported, the rows handed
\* to insert, and the rows the table receives, have the same set of
\* (name, value, spent, category) as the vouchers of the list.
C12_Tuples(rows) ==
    {<<rows[k].name, rows[k].value, rows[k].spent, rows[k].category>> :
        k \in 1..Len(rows)}

C12_RoundTrip ==
    [][(last' # last /\ last'.op = "import"
          /\ last'.sheet = ReadSheet(ExportData(list, now, tz)))
          => /\ C12_Tuples(IF last'.stage = "rejected" THEN <<>> ELSE last'.rows)
                  = C12_Tuples(list)
             /\ last'.stage = "done" =>
                  C12_Tuples(SubSeq(store', Len(store) + 1, Len(store')))
                      = C12_Tuples(list)]_vars

\* The export of a list with a partly spent voucher named "0" that carries
\* a code is on its way into the table again.
C12_Witness ==
    /\ last.op = "import" /\ last.stage = "sent"
    /\ list # <<>>
    /\ last.sheet = ReadSheet(ExportData(list, now, tz))
    /\ \E k \in 1..Len(list) :
          /\ 0 < list[k].spent /\ list[k].spent < list[k].value
          /\ list[k].name = Zero
          /\ list[k].code # Null

\* --------------------------------------------------------------------- C13
\* C13: for every list, the empty one too, the exported sheet has the header
\* row name, value, spent, remaining, category, code, pin, expires_on,
\* status, created_at, and below it one row per voucher in list order with
\* remaining = value - spent and status = the derived status.
C13_ExportSheet ==
    last.op = "export" =>
        /\ last.headers = Columns
        /\ Len(last.data) = Len(last.snap) + 1
        /\ last.data[1] = Columns
        /\ \A k \in 1..Len(last.snap) :
              LET v == last.snap[k]
              IN  last.data[k + 1] =
                    <<TextCell(v.name), NumCell(NumText(v.value)),
                      NumCell(NumText(v.spent)), NumCell(NumText(v.value - v.spent)),
                      v.category, TextCell(TextOr(v.code)), TextCell(TextOr(v.pin)),
                      v.expires_on, deriveStatus(v, last.at, tz), v.created_at>>

\* The number of places at which the voucher v stands in the array arr.
Places(arr, v) == Cardinality({k \in 1..Len(arr) : arr[k] = v})

\* Text a occurs in text b when letter case is ignored.
OccursIn(a, b) ==
    \E i \in 1..(Len(b) - Len(a) + 1) :
        toLowerCase(SubSeq(b, i, i + Len(a) - 1)) = toLowerCase(a)

\* The voucher v passes the category filter cat and the search for srch.
PassesWith(v, cat, srch) ==
    /\ cat = "All" \/ v.category = cat
    /\ \/ Trim(srch) = <<>>
       \/ OccursIn(Trim(srch), v.name)
       \/ (v.code # Null /\ OccursIn(Trim(srch), v.code))
       \/ OccursIn(Trim(srch), CategoryText(v.category))

Passes(v) == PassesWith(v, filterCategory, search)

\* --------------------------------------------------------------------- C14
\* C14: the projected list holds exactly the vouchers of the list that pass
\* the category filter (All, or the voucher's category) and the search (the
\* trimmed term is empty or occurs, case ignored, in the name, the code or
\* the category), each of them once and nothing else.
C14_FilterAndSearch ==
    /\ \A k \in 1..Len(filtered) : \E i \in 1..Len(list) : list[i] = filtered[k]
    /\ \A i \in 1..Len(list) :
          Places(filtered, list[i]) = IF Passes(list[i]) THEN 1 ELSE 0

\* Two vouchers are listed, the search term has blanks and capitals around
\* it, and only one voucher passes: through its code, not its name or its
\* category.
C14_Witness ==
    /\ Settled /\ Len(list) = 2 /\ Len(filtered) = 1
    /\ Trim(search) # search /\ Trim(search) # <<>>
    /\ filterCategory = "General"
    /\ ~OccursIn(Trim(search), filtered[1].name)
    /\ ~OccursIn(Trim(search), CategoryText(filtered[1].category))
    /\ \E i \in 1..Len(list) : list[i].category = "General" /\ ~Passes(list[i])

\* A step in which the memo is computed: a selector changes, or fetchAll
\* hands rows (or, without a session, the empty list) to setList.
Computes ==
    \/ filterCategory' # filterCategory \/ search' # search \/ sort' # sort
    \/ \E i \in 1..Len(net) :
          /\ net[i].kind = "fetch" /\ net[i].phase \in {"data", "nouser"}
          /\ net' = Without(net, i)

\* Under the sort key, voucher a has to stand before voucher b; statuses
\* are derived at the instant t.
Before(key, a, b, t) ==
    CASE key = "created_desc" -> FALSE
      [] key = "value_desc" -> a.value > b.value
      [] key = "value_asc" -> a.value < b.value
      [] key = "remaining_desc" -> a.value - a.spent > b.value - b.spent
      [] key = "expiry_asc" ->
            /\ a.expires_on # NoDate
            /\ b.expires_on = NoDate \/ a.expires_on < b.expires_on
      [] key = "status_used_first" ->
            LET sa == deriveStatus(a, t, tz)
                sb == deriveStatus(b, t, tz)
            IN  \/ sa = "used" /\ sb \in {"unused", "expired"}
                \/ sa = "unused" /\ sb = "expired"
      [] key = "status_unused_first" ->
            LET sa == deriveStatus(a, t, tz)
                sb == deriveStatus(b, t, tz)
            IN  \/ sa = "unused" /\ sb \in {"used", "expired"}
                \/ sa = "used" /\ sb = "expired"

\* The place of the voucher v in the array arr.
Place(arr, v) == CHOOSE k \in 1..Len(arr) : arr[k] = v

\* --------------------------------------------------------------------- C15
\* C15: whenever the projection is computed, for every sort key, the list
\* itself stays as it is (a selector leaves it alone, a fetch sets it to the
\* fetched rows), the result is a permutation of the filtered vouchers,
\* vouchers that tie on the sort key keep their order in the list (newest
\* first), and with created_desc the result is the filtered vouchers in list
\* order.
C15_SortFrame ==
    [][Computes =>
        LET base == SelectSeq(list', LAMBDA v : PassesWith(v, filterCategory', search'))
            arr  == filtered'
        IN  /\ (filterCategory' # filterCategory \/ search' # search \/ sort' # sort)
                 => list' = list
            /\ \A i \in 1..Len(net) :
                  (net[i].kind = "fetch" /\ net[i].phase = "data" /\ net' = Without(net, i))
                     => list' = net[i].data
            /\ Len(arr) = Len(base)
            /\ \A k \in 1..Len(base) : Places(arr, base[k]) = 1
            /\ \A i, j \in 1..Len(base) :
                  (i < j /\ ~Before(sort', base[i], base[j], now)
                         /\ ~Before(sort', base[j], base[i], now))
                     => Place(arr, base[i]) < Place(arr, base[j])
            /\ sort' = "created_desc" => arr = base]_vars

\* Sorted by value, two vouchers of equal value stand in list order, the
\* newer one first.
C15_Witness ==
    /\ Settled /\ sort = "value_desc" /\ Len(list) = 2 /\ filtered = list
    /\ list[1].value = list[2].value /\ list[1].id > list[2].id
    /\ list[1].spent # list[2].spent

C17_NoWriteWithoutSession ==
    \A i \in 1..Len(net) : net[i].kind = "write" => net[i].by # NoUser

\* --------------------------------------------------------------------- C18
\* C18: whenever the store rejects or fails the write of Add, Partial Use,
\* Toggle, Edit, Delete or Bulk Import, the handler reports the error to the
\* user, and the write is not sent again.
C18_StoreErrorsReported ==
    last.stage = "failed" => (last.alert # "" /\ net = <<>>)

\* A mutation is rejected by the store.
MutationRejected ==
    \E i \in 1..Len(net) :
        net[i].kind = "write" /\ net' = Without(net, i) /\ last'.stage = "failed"

\* A list fetch fails in the store.
FetchFailed ==
    \E i \in 1..Len(net) :
        net[i].kind = "fetch" /\ net[i].phase = "error" /\ net' = Without(net, i)

\* A list fetch made without a session comes back.
FetchWithoutSession ==
    \E i \in 1..Len(net) :
        net[i].kind = "fetch" /\ net[i].phase = "nouser" /\ net' = Without(net, i)

\* A list fetch hands its rows to setList.
FetchSucceeded ==
    \E i \in 1..Len(net) :
        /\ net[i].kind = "fetch" /\ net[i].phase = "data" /\ net' = Without(net, i)
        /\ list' = net[i].data

\* --------------------------------------------------------------------- C19
\* C19 as stated: when a store request fails (a rejected mutation, a failed
\* list fetch, or a fetch made after the session has expired) the in-memory
\* list stays as the last successful fetch left it.
C19_FailureKeepsList ==
    [][(MutationRejected \/ FetchFailed \/ FetchWithoutSession) => list' = list]_vars

\* C19: a rejected mutation and a failed list fetch leave the in-memory list
\* as the last successful fetch left it, while a fetch made without a
\* session empties it; the list changes in no step other than a successful
\* fetch, a fetch without a session and the mount after a sign-in.
C19_FailureAndList ==
    [][/\ (MutationRejected \/ FetchFailed) => list' = list
       /\ FetchWithoutSession => list' = <<>>
       /\ list' # list =>
             (FetchSucceeded \/ FetchWithoutSession \/ (user = NoUser /\ user' # NoUser))]_vars

\* After a write the store did accept, the re-fetch has failed: the list is
\* not empty and is no longer what the store holds for the user.
C19_Witness ==
    /\ Settled /\ user # NoUser /\ last.stage = "done"
    /\ list # <<>> /\ list \notin Selections(store, user)

\* --------------------------------------------------------------------- C20
\* C20: every write that the store accepts is followed by a full re-fetch,
\* and a failed write by none, so that whenever no request is pending the
\* in-memory list is the rows of the signed-in user in the store, newest
\* first.
C20_ListFollowsStore ==
    net = <<>> => list \in Selections(store, user)

\* --------------------------------------------------------------------- C24
\* C24: after any sequence of successful Add, Partial Use, Toggle, Edit and
\* Bulk Import operations, every stored voucher has the status used exactly
\* when its spent has reached its value.
C24_StatusMatchesBalance ==
    \A id \in Live : Row(id).status = "used" <=> Row(id).spent >= Row(id).value

\* --------------------------------------------------------------------- C23
\* C23: also when user actions interleave with requests on their way, so
\* that a Partial Use, Toggle or Edit starts from a row the page holds from
\* before an earlier write, no row of the store ever has spent below 0 or
\* above its value.
C23_SpentWithinValueAsync ==
    \A k \in 1..Len(store) :
        Deleted(store[k]) \/ (store[k].spent >= 0 /\ store[k].value >= store[k].spent)

\* --------------------------------------------------------------------- C21
\* C21: with two users, the in-memory list of a signed-in user holds only
\* vouchers whose owner is that user; every insert request (Add, Bulk
\* Import) is sent with the user of the moment as the owner of each row, and
\* the table stores the rows with that owner; and no step changes the owner
\* of a voucher the table already holds.
C21_OwnerIsolation ==
    /\ [](user # NoUser => \A k \in 1..Len(list) : list[k].user_id = user)
    /\ [][/\ (Len(net') > Len(net) /\ net'[Len(net')].kind = "write"
                 /\ net'[Len(net')].op \in {"add", "import"})
              => /\ user # NoUser
                 /\ \A r \in 1..Len(net'[Len(net')].rows) :
                       net'[Len(net')].rows[r].user_id = user
          /\ \A id \in 1..Len(store') :
                IF id <= Len(store)
                THEN Deleted(store'[id]) \/ store'[id].user_id = store[id].user_id
                ELSE store'[id].user_id = last'.by /\ last'.by # NoUser]_vars

\* The table holds vouchers of both users; the signed-in user, who is not
\* the owner of the oldest voucher, sees vouchers and has just had an edit
\* accepted.
C21_Witness ==
    /\ Settled /\ user # NoUser /\ list # <<>>
    /\ last.op = "edit" /\ last.stage = "done" /\ last.by = user
    /\ \E id \in Live : Row(id).user_id # user
    /\ \E id \in Live : Row(id).user_id = user /\ Row(id).name = <<"B">>

\* --------------------------------------------------------------------- C22
\* C22: for every voucher the Dashboard holds (any expiry date, any stored
\* status, none too) and at every time, the Dashboard's deriveStatus gives
\* what the Vouchers page's deriveStatus gives, and the Dashboard's unused,
\* used and expired counts sum to the number of its vouchers.
C22_DashboardSameStatus ==
    /\ \A k \in 1..Len(dash.vouchers) :
          DashboardDeriveStatus(dash.vouchers[k], now, tz)
              = deriveStatus(dash.vouchers[k], now, tz)
    /\ dash.totals.unused + dash.totals.used + dash.totals.expired = Len(dash.vouchers)

\* --------------------------------------------------------------------- C25
\* C25: on the Vouchers page and on the Dashboard, after the mount and after
\* every re-fetch, once the auth and store calls have returned the loading
\* flag becomes false, whether there was no user, a store error or rows.
C25_LoadingEnds ==
    /\ [](dash.pc = "off" /\ loading => <>(~loading \/ dash.pc # "off"))
    /\ [](dash.pc = "done" => <>(~dash.loading \/ dash.pc # "done"))

=============================================================================
